---- MODULE Spec2Model ----
(***************************************************************************)
(* Model of the urlencoded Iron plugin (src/src/lib.rs).                   *)
(*                                                                         *)
(* Strings are sequences of bytes (integers 0..255).  An Option<T> is a    *)
(* set with at most one element: None is {}, Some(x) is {x}.  A QueryMap   *)
(* (HashMap<String, Vec<String>>) is a set of entries [key, vals]; the     *)
(* HashMap's iteration order is unspecified, so no order is kept among     *)
(* entries.                                                                *)
(***************************************************************************)
EXTENDS Integers, Sequences, FiniteSets, TLC

VARIABLES req, pc, invoked, data, input, deduplicated, consumed, result

vars == <<req, pc, invoked, data, input, deduplicated, consumed, result>>

----------------------------------------------------------------------------
(* Bytes the decoder looks at. *)
PERCENT == 37
AMP == 38
PLUS == 43
EQUALS == 61
SPACE == 32

(* Bounds of the explored inputs. *)
MaxToks == 3
MaxBodyToks == 1

----------------------------------------------------------------------------
(* url::percent_encoding::percent_decode : bytes -> bytes.  A '%' followed *)
(* by two hexadecimal digits is one byte; every other byte is itself.      *)

IsHex(c) == (c \in 48..57) \/ (c \in 65..70) \/ (c \in 97..102)

HexVal(c) == IF c \in 48..57 THEN c - 48
             ELSE IF c \in 65..70 THEN c - 55
             ELSE c - 87

RECURSIVE percent_decode(_)
percent_decode(b) ==
    IF b = <<>> THEN <<>>
    ELSE IF Head(b) = PERCENT /\ Len(b) >= 3 /\ IsHex(b[2]) /\ IsHex(b[3])
         THEN <<HexVal(b[2]) * 16 + HexVal(b[3])>>
                  \o percent_decode(SubSeq(b, 4, Len(b)))
         ELSE <<Head(b)>> \o percent_decode(Tail(b))

----------------------------------------------------------------------------
(* UTF-8 validation as std::str::from_utf8 performs it, and the lossy      *)
(* conversion String::from_utf8_lossy that form_urlencoded applies to each *)
(* decoded part.                                                           *)

SafeGet(b, i) == IF i <= Len(b) THEN b[i] ELSE 0

IsCont(x) == x \in 128..191

CharWidth(x) == IF x < 128 THEN 1
                ELSE IF x \in 194..223 THEN 2
                ELSE IF x \in 224..239 THEN 3
                ELSE IF x \in 240..244 THEN 4
                ELSE 0

Second3(f, s) == \/ f = 224 /\ s \in 160..191
                 \/ f \in 225..236 /\ s \in 128..191
                 \/ f = 237 /\ s \in 128..159
                 \/ f \in 238..239 /\ s \in 128..191

Second4(f, s) == \/ f = 240 /\ s \in 144..191
                 \/ f \in 241..243 /\ s \in 128..191
                 \/ f = 244 /\ s \in 128..143

(* One scalar value starting at index i: ok with the index after it, or    *)
(* not ok with the index after the maximal invalid prefix.                 *)
Scan(b, i) ==
    LET f == b[i]
        w == CharWidth(f)
    IN  IF w = 1 THEN [ok |-> TRUE, next |-> i + 1]
        ELSE IF w = 2 THEN
            IF IsCont(SafeGet(b, i + 1)) THEN [ok |-> TRUE, next |-> i + 2]
            ELSE [ok |-> FALSE, next |-> i + 1]
        ELSE IF w = 3 THEN
            IF ~Second3(f, SafeGet(b, i + 1)) THEN [ok |-> FALSE, next |-> i + 1]
            ELSE IF ~IsCont(SafeGet(b, i + 2)) THEN [ok |-> FALSE, next |-> i + 2]
            ELSE [ok |-> TRUE, next |-> i + 3]
        ELSE IF w = 4 THEN
            IF ~Second4(f, SafeGet(b, i + 1)) THEN [ok |-> FALSE, next |-> i + 1]
            ELSE IF ~IsCont(SafeGet(b, i + 2)) THEN [ok |-> FALSE, next |-> i + 2]
            ELSE IF ~IsCont(SafeGet(b, i + 3)) THEN [ok |-> FALSE, next |-> i + 3]
            ELSE [ok |-> TRUE, next |-> i + 4]
        ELSE [ok |-> FALSE, next |-> i + 1]

RECURSIVE ValidFrom(_, _)
ValidFrom(b, i) ==
    IF i > Len(b) THEN TRUE
    ELSE LET s == Scan(b, i) IN s.ok /\ ValidFrom(b, s.next)

decode_utf8_ok(b) == ValidFrom(b, 1)

REPLACEMENT == <<239, 191, 189>>

RECURSIVE LossyFrom(_, _)
LossyFrom(b, i) ==
    IF i > Len(b) THEN <<>>
    ELSE LET s == Scan(b, i)
         IN  (IF s.ok THEN SubSeq(b, i, s.next - 1) ELSE REPLACEMENT)
                 \o LossyFrom(b, s.next)

from_utf8_lossy(b) == LossyFrom(b, 1)

----------------------------------------------------------------------------
(* url::form_urlencoded::parse : the Parse iterator.                       *)

replace_plus(b) == [i \in 1..Len(b) |-> IF b[i] = PLUS THEN SPACE ELSE b[i]]

(* Mutant: the parts are percent-decoded without the '+' substitution. *)
decode_NoPlus(part) == from_utf8_lossy(percent_decode(part))

decode(part) == from_utf8_lossy(percent_decode(replace_plus(part)))

(* Index of the first occurrence of byte c in b, 0 when there is none. *)
IndexOf(b, c) ==
    IF \E i \in 1..Len(b) : b[i] = c
    THEN CHOOSE i \in 1..Len(b) : b[i] = c /\ \A j \in 1..(i - 1) : b[j] # c
    ELSE 0

(* splitn(2, c): the part before the first c, and the part after it. *)
SplitHead(b, c) ==
    LET i == IndexOf(b, c) IN IF i = 0 THEN b ELSE SubSeq(b, 1, i - 1)

SplitRest(b, c) ==
    LET i == IndexOf(b, c) IN IF i = 0 THEN <<>> ELSE SubSeq(b, i + 1, Len(b))

(* Mutant: a segment is split on its last '=' instead of its first. *)
LastIndexOf(b, c) ==
    IF \E i \in 1..Len(b) : b[i] = c
    THEN CHOOSE i \in 1..Len(b) : b[i] = c /\ \A j \in (i + 1)..Len(b) : b[j] # c
    ELSE 0

RECURSIVE ParseNext_LastEq(_)
ParseNext_LastEq(inp) ==
    IF inp = <<>> THEN {}
    ELSE LET sequence == SplitHead(inp, AMP)
             rest == SplitRest(inp, AMP)
             e == LastIndexOf(sequence, EQUALS)
         IN  IF sequence = <<>> THEN ParseNext_LastEq(rest)
             ELSE {[name  |-> decode(IF e = 0 THEN sequence
                                     ELSE SubSeq(sequence, 1, e - 1)),
                    value |-> decode(IF e = 0 THEN <<>>
                                     ELSE SubSeq(sequence, e + 1, Len(sequence))),
                    rest  |-> rest]}

(* Parse::next: the next pair and the remaining input, or nothing. *)
RECURSIVE ParseNext(_)
ParseNext(inp) ==
    IF inp = <<>> THEN {}
    ELSE LET sequence == SplitHead(inp, AMP)
             rest == SplitRest(inp, AMP)
         IN  IF sequence = <<>> THEN ParseNext(rest)
             ELSE {[name  |-> decode(SplitHead(sequence, EQUALS)),
                    value |-> decode(SplitRest(sequence, EQUALS)),
                    rest  |-> rest]}

----------------------------------------------------------------------------
(* Results and errors. *)

NoErr == [kind |-> "none", inner |-> "none"]
EmptyQuery == [kind |-> "EmptyQuery", inner |-> "none"]
MalformedQuery == [kind |-> "MalformedQuery", inner |-> "none"]
BodyError(e) == [kind |-> "BodyError", inner |-> e]

Pending == [tag |-> "Pending", map |-> {}, err |-> NoErr]
Ok(m) == [tag |-> "Ok", map |-> m, err |-> NoErr]
Err(e) == [tag |-> "Err", map |-> {}, err |-> e]

(* UrlDecodingError::cause *)
cause(e) == IF e.kind = "BodyError" THEN {e.inner} ELSE {}

----------------------------------------------------------------------------
(* The inputs explored: texts built from at most MaxToks tokens, and the   *)
(* two strings of the crate's own tests.                                   *)

Tokens ==
    { <<120, 61, 49>>,      \* x=1
      <<120, 61, 52>>,      \* x=4
      <<38>>,               \* &
      <<61>>,               \* =
      <<43>>,               \* +
      <<37>>,               \* %
      <<49>>,               \* 1
      <<52>>,               \* 4
      <<37, 50, 53>>,       \* %25
      <<37, 50, 54>>,       \* %26
      <<37, 51, 68>>,       \* %3D
      <<37, 50, 66>>,       \* %2B
      <<37, 70, 70>>,       \* %FF
      <<37, 67, 51>>,       \* %C3
      <<37, 65, 57>>,       \* %A9
      <<37, 52, 49>> }      \* %41

RECURSIVE TextsOf(_)
TextsOf(n) ==
    IF n = 0 THEN {<<>>}
    ELSE LET prev == TextsOf(n - 1)
         IN  prev \cup {t \o tok : t \in prev, tok \in Tokens}

\* "band=arctic_monkeys&band=temper_trap&color=green"
TestDuplicates ==
    <<98,97,110,100,61,97,114,99,116,105,99,95,109,111,110,107,101,121,115,
      38,98,97,110,100,61,116,101,109,112,101,114,95,116,114,97,112,
      38,99,111,108,111,114,61,103,114,101,101,110>>

\* "band=arctic+monkeys&anotherband=temper+trap"
TestPlus ==
    <<98,97,110,100,61,97,114,99,116,105,99,43,109,111,110,107,101,121,115,
      38,97,110,111,116,104,101,114,98,97,110,100,61,
      116,101,109,112,101,114,43,116,114,97,112>>

QueryTexts == TextsOf(MaxToks) \cup {TestDuplicates, TestPlus}
BodyTexts == TextsOf(MaxBodyToks)
BodyFailures == {"e1", "e2"}

(* A request as the two plugins see it: req.url.query, and what the body   *)
(* reader finds (the body bytes, if any, and the failure, if any).         *)
Requests ==
    {[plugin |-> "query", query |-> q, raw |-> {}, fail |-> {}] :
        q \in {{}} \cup {{t} : t \in QueryTexts}}
    \cup
    {[plugin |-> "body", query |-> {}, raw |-> r, fail |-> f] :
        r \in {{}} \cup {{t} : t \in BodyTexts},
        f \in {{}} \cup {{e} : e \in BodyFailures}}

(* The element of a Some. *)
Unwrap(o) == CHOOSE x \in o : TRUE

----------------------------------------------------------------------------
Init ==
    /\ req \in Requests
    /\ pc = "eval"
    /\ invoked = FALSE
    /\ data = <<>>
    /\ input = <<>>
    /\ deduplicated = {}
    /\ consumed = <<>>
    /\ result = Pending

(* Mutants of create_param_hashmap. *)
HasStrayPercent(t) ==
    \E i \in 1..Len(t) :
        t[i] = PERCENT /\ ~(i + 2 <= Len(t) /\ IsHex(t[i + 1]) /\ IsHex(t[i + 2]))

\* the emptiness check is missing
create_param_hashmap_NoEmptyCheck(text) ==
    /\ invoked' = TRUE
    /\ IF ~decode_utf8_ok(percent_decode(text))
       THEN /\ result' = Err(MalformedQuery)
            /\ pc' = "done"
            /\ UNCHANGED <<data, input>>
       ELSE /\ data' = percent_decode(text)
            /\ input' = percent_decode(text)
            /\ pc' = "fold"
            /\ UNCHANGED result
    /\ UNCHANGED <<req, deduplicated, consumed>>

\* invalid UTF-8 is converted lossily instead of being refused
create_param_hashmap_NoUtf8Check(text) ==
    /\ invoked' = TRUE
    /\ IF text = <<>>
       THEN /\ result' = Err(EmptyQuery)
            /\ pc' = "done"
            /\ UNCHANGED <<data, input>>
       ELSE /\ data' = from_utf8_lossy(percent_decode(text))
            /\ input' = from_utf8_lossy(percent_decode(text))
            /\ pc' = "fold"
            /\ UNCHANGED result
    /\ UNCHANGED <<req, deduplicated, consumed>>

\* a '%' that starts no escape is refused
create_param_hashmap_Strict(text) ==
    /\ invoked' = TRUE
    /\ IF text = <<>>
       THEN /\ result' = Err(EmptyQuery)
            /\ pc' = "done"
            /\ UNCHANGED <<data, input>>
       ELSE IF HasStrayPercent(text) \/ ~decode_utf8_ok(percent_decode(text))
       THEN /\ result' = Err(MalformedQuery)
            /\ pc' = "done"
            /\ UNCHANGED <<data, input>>
       ELSE /\ data' = percent_decode(text)
            /\ input' = percent_decode(text)
            /\ pc' = "fold"
            /\ UNCHANGED result
    /\ UNCHANGED <<req, deduplicated, consumed>>

\* the raw text, not the decoded one, is handed to the form parser
create_param_hashmap_NoPredecode(text) ==
    /\ invoked' = TRUE
    /\ IF text = <<>>
       THEN /\ result' = Err(EmptyQuery)
            /\ pc' = "done"
            /\ UNCHANGED <<data, input>>
       ELSE IF ~decode_utf8_ok(percent_decode(text))
       THEN /\ result' = Err(MalformedQuery)
            /\ pc' = "done"
            /\ UNCHANGED <<data, input>>
       ELSE /\ data' = percent_decode(text)
            /\ input' = text
            /\ pc' = "fold"
            /\ UNCHANGED result
    /\ UNCHANGED <<req, deduplicated, consumed>>

(* create_param_hashmap up to the construction of the Parse iterator and   *)
(* of the empty map that combine_duplicates starts from.                   *)
create_param_hashmap(text) ==
    /\ invoked' = TRUE
    /\ IF text = <<>>
       THEN /\ result' = Err(EmptyQuery)
            /\ pc' = "done"
            /\ UNCHANGED <<data, input>>
       ELSE IF ~decode_utf8_ok(percent_decode(text))
       THEN /\ result' = Err(MalformedQuery)
            /\ pc' = "done"
            /\ UNCHANGED <<data, input>>
       ELSE /\ data' = percent_decode(text)
            /\ input' = percent_decode(text)
            /\ pc' = "fold"
            /\ UNCHANGED result
    /\ UNCHANGED <<req, deduplicated, consumed>>

(* UrlEncodedQuery::eval *)
QueryEvalNone ==
    /\ pc = "eval" /\ req.plugin = "query" /\ req.query = {}
    /\ result' = Err(EmptyQuery)
    /\ pc' = "done"
    /\ UNCHANGED <<req, invoked, data, input, deduplicated, consumed>>

QueryEvalSome ==
    /\ pc = "eval" /\ req.plugin = "query" /\ req.query # {}
    /\ create_param_hashmap(Unwrap(req.query))

(* Mutant: a failed body read is treated as an absent body. *)
BodyEvalErr_AsEmpty ==
    /\ pc = "eval" /\ req.plugin = "body" /\ req.fail # {}
    /\ create_param_hashmap(<<>>)

(* UrlEncodedBody::eval *)
BodyEvalErr ==
    /\ pc = "eval" /\ req.plugin = "body" /\ req.fail # {}
    /\ result' = Err(BodyError(Unwrap(req.fail)))
    /\ pc' = "done"
    /\ UNCHANGED <<req, invoked, data, input, deduplicated, consumed>>

BodyEvalOk ==
    /\ pc = "eval" /\ req.plugin = "body" /\ req.fail = {}
    /\ create_param_hashmap(IF req.raw = {} THEN <<>> ELSE Unwrap(req.raw))

(* Mutants of the entry handling. *)
Occupied_Never(m, k) == FALSE

PushOccupied_Prepend(m, k, v) ==
    {IF e.key = k THEN [key |-> k, vals |-> <<v>> \o e.vals] ELSE e : e \in m}

(* combine_duplicates: one turn of the loop. *)
Occupied(m, k) == \E e \in m : e.key = k

PushOccupied(m, k, v) ==
    {IF e.key = k THEN [key |-> k, vals |-> Append(e.vals, v)] ELSE e : e \in m}

InsertVacant(m, k, v) == m \cup {[key |-> k, vals |-> <<v>>]}

FoldOccupied ==
    /\ pc = "fold"
    /\ \E n \in ParseNext(input) :
        /\ Occupied(deduplicated, n.name)
        /\ deduplicated' = PushOccupied(deduplicated, n.name, n.value)
        /\ consumed' = Append(consumed, <<n.name, n.value>>)
        /\ input' = n.rest
    /\ UNCHANGED <<req, pc, invoked, data, result>>

FoldVacant ==
    /\ pc = "fold"
    /\ \E n \in ParseNext(input) :
        /\ ~Occupied(deduplicated, n.name)
        /\ deduplicated' = InsertVacant(deduplicated, n.name, n.value)
        /\ consumed' = Append(consumed, <<n.name, n.value>>)
        /\ input' = n.rest
    /\ UNCHANGED <<req, pc, invoked, data, result>>

(* Mutant: a map without entries is reported as an empty query. *)
FoldReturn_EmptyIsError ==
    /\ pc = "fold"
    /\ ParseNext(input) = {}
    /\ result' = IF deduplicated = {} THEN Err(EmptyQuery) ELSE Ok(deduplicated)
    /\ pc' = "done"
    /\ input' = <<>>
    /\ UNCHANGED <<req, invoked, data, deduplicated, consumed>>

FoldReturn ==
    /\ pc = "fold"
    /\ ParseNext(input) = {}
    /\ result' = Ok(deduplicated)
    /\ pc' = "done"
    /\ input' = <<>>
    /\ UNCHANGED <<req, invoked, data, deduplicated, consumed>>

Next ==
    \/ QueryEvalNone
    \/ QueryEvalSome
    \/ BodyEvalErr
    \/ BodyEvalOk
    \/ FoldOccupied
    \/ FoldVacant
    \/ FoldReturn

Spec == Init /\ [][Next]_vars

----------------------------------------------------------------------------
(* Vocabulary of the properties.  The segments and pairs of a text are     *)
(* stated here by position, independently of the iterator above.           *)

Done == pc = "done"
Succeeded == pc = "done" /\ result.tag = "Ok"

(* The text that reached create_param_hashmap (meaningful when invoked). *)
Text == IF req.plugin = "query" THEN Unwrap(req.query)
        ELSE IF req.raw = {} THEN <<>> ELSE Unwrap(req.raw)

Count(b, c) == Cardinality({i \in 1..Len(b) : b[i] = c})

RECURSIVE SortedSeq(_)
SortedSeq(S) ==
    IF S = {} THEN <<>>
    ELSE LET m == CHOOSE x \in S : \A y \in S : x <= y
         IN  <<m>> \o SortedSeq(S \ {m})

SegStarts(d) == {i \in 1..Len(d) : d[i] # AMP /\ (i = 1 \/ d[i - 1] = AMP)}

SegEnd(d, i) ==
    CHOOSE j \in i..Len(d) :
        /\ \A k \in i..j : d[k] # AMP
        /\ (j = Len(d) \/ d[j + 1] = AMP)

(* The non-empty '&'-delimited segments of d, left to right. *)
RefSegments(d) ==
    LET st == SortedSeq(SegStarts(d))
    IN  [n \in 1..Len(st) |-> SubSeq(d, st[n], SegEnd(d, st[n]))]

FirstEq(seg) ==
    IF Count(seg, EQUALS) = 0 THEN 0
    ELSE CHOOSE i \in 1..Len(seg) :
            seg[i] = EQUALS /\ \A j \in 1..Len(seg) : seg[j] = EQUALS => i <= j

KeyPart(seg) == IF FirstEq(seg) = 0 THEN seg ELSE SubSeq(seg, 1, FirstEq(seg) - 1)
ValuePart(seg) ==
    IF FirstEq(seg) = 0 THEN <<>> ELSE SubSeq(seg, FirstEq(seg) + 1, Len(seg))

RefPair(seg) == <<decode(KeyPart(seg)), decode(ValuePart(seg))>>

FormPairs(d) == LET sg == RefSegments(d) IN [n \in 1..Len(sg) |-> RefPair(sg[n])]

RECURSIVE ValuesOf(_, _)
ValuesOf(pairs, k) ==
    IF pairs = <<>> THEN <<>>
    ELSE (IF Head(pairs)[1] = k THEN <<Head(pairs)[2]>> ELSE <<>>)
             \o ValuesOf(Tail(pairs), k)

KeysOf(pairs) == {pairs[i][1] : i \in 1..Len(pairs)}

Grouped(pairs) == {[key |-> k, vals |-> ValuesOf(pairs, k)] : k \in KeysOf(pairs)}

(* Byte strings of the crate's tests. *)
S_band == <<98,97,110,100>>
S_arctic_monkeys == <<97,114,99,116,105,99,95,109,111,110,107,101,121,115>>
S_temper_trap == <<116,101,109,112,101,114,95,116,114,97,112>>
S_color == <<99,111,108,111,114>>
S_green == <<103,114,101,101,110>>
S_arctic_sp_monkeys == <<97,114,99,116,105,99,32,109,111,110,107,101,121,115>>
S_anotherband == <<97,110,111,116,104,101,114,98,97,110,100>>
S_temper_sp_trap == <<116,101,109,112,101,114,32,116,114,97,112>>

----------------------------------------------------------------------------
(* C1: on success, the value sequence under every key k is, in order and   *)
(* in length, the values of the input's pairs whose key is k, left to      *)
(* right; the test string gives band -> [arctic_monkeys, temper_trap],     *)
(* color -> [green].                                                       *)
C1_ValuesInInputOrder ==
    Succeeded =>
        /\ \A e \in result.map : e.vals = ValuesOf(FormPairs(data), e.key)
        /\ req.query = {TestDuplicates} =>
              result.map = {[key |-> S_band,
                             vals |-> <<S_arctic_monkeys, S_temper_trap>>],
                            [key |-> S_color, vals |-> <<S_green>>]}

C1_Witness ==
    /\ Succeeded
    /\ \E e \in result.map : Len(e.vals) >= 2 /\ e.vals[1] # e.vals[2]

(* The shape of the map during the fold, and of one turn of the loop. *)
MapInvariant(m) ==
    /\ \A e1, e2 \in m : e1.key = e2.key => e1 = e2
    /\ {e.key : e \in m} = KeysOf(consumed)
    /\ \A e \in m : e.vals # <<>>

EntryOf(m, k) == CHOOSE e \in m : e.key = k

FoldStepOk ==
    (pc = "fold" /\ consumed' # consumed) =>
        LET k == consumed'[Len(consumed')][1]
            v == consumed'[Len(consumed')][2]
        IN  /\ consumed' = Append(consumed, <<k, v>>)
            /\ \A e \in deduplicated : e.key # k => e \in deduplicated'
            /\ IF \E e \in deduplicated : e.key = k
               THEN /\ Cardinality(deduplicated') = Cardinality(deduplicated)
                    /\ EntryOf(deduplicated', k).vals
                           = Append(EntryOf(deduplicated, k).vals, v)
               ELSE /\ Cardinality(deduplicated') = Cardinality(deduplicated) + 1
                    /\ EntryOf(deduplicated', k).vals = <<v>>

(* C2: at every step of the fold and in the returned map, a key has at     *)
(* most one entry, the keys are exactly those of the pairs consumed so     *)
(* far, no entry is empty; a pair with a present key appends to its entry  *)
(* and a pair with a new key creates a one-element entry.                  *)
C2_KeysUniqueThroughFold ==
    /\ [](pc = "fold" => MapInvariant(deduplicated))
    /\ [](Succeeded => result.map = deduplicated /\ MapInvariant(result.map))
    /\ [][FoldStepOk]_vars

C2_Witness ==
    /\ pc = "fold"
    /\ Len(consumed) >= 2
    /\ Cardinality(deduplicated) < Len(consumed)

(* C3: create_param_hashmap fails with EmptyQuery exactly when its text is *)
(* empty, before decoding anything; so an absent query, an empty query, an *)
(* absent body and an empty body all give EmptyQuery, and a non-empty text *)
(* never does.                                                             *)
C3_EmptyQueryIffEmptyText ==
    /\ invoked => (pc = "done" /\ result = Err(EmptyQuery) <=> Text = <<>>)
    /\ (invoked /\ Text = <<>>) => data = <<>> /\ consumed = <<>>
    /\ (Done /\ req.plugin = "query" /\ req.query \in {{}, {<<>>}})
          => result = Err(EmptyQuery)
    /\ (Done /\ req.plugin = "body" /\ req.fail = {} /\ req.raw \in {{}, {<<>>}})
          => result = Err(EmptyQuery)
    /\ (Done /\ result = Err(EmptyQuery))
          => (~invoked /\ req.plugin = "query" /\ req.query = {})
             \/ (invoked /\ Text = <<>>)

C3_Witness ==
    /\ Done /\ invoked
    /\ req.plugin = "body" /\ req.fail = {} /\ req.raw = {}
    /\ result = Err(EmptyQuery)

(* C4: for a non-empty text, MalformedQuery is the result exactly when the *)
(* single percent-decoding of the whole text is not valid UTF-8 (a lone    *)
(* "%FF"); no later step fails, so every other non-empty text ends with a  *)
(* map.                                                                    *)
C4_MalformedIffInvalidUtf8 ==
    (invoked /\ Text # <<>>) =>
        /\ (pc = "done" /\ result = Err(MalformedQuery))
               <=> ~decode_utf8_ok(percent_decode(Text))
        /\ decode_utf8_ok(percent_decode(Text))
               => /\ pc = "fold" => result = Pending
                  /\ pc = "done" => result.tag = "Ok"
        /\ Text = <<37, 70, 70>> => result = Err(MalformedQuery)

C4_Witness ==
    /\ Done /\ invoked
    /\ Text = <<37, 70, 70>>
    /\ result = Err(MalformedQuery)

(* C5: when reading the body failed, UrlEncodedBody::eval gives BodyError  *)
(* with that failure as its cause, create_param_hashmap is not called, and *)
(* the body's content plays no part; cause() is the wrapped failure for    *)
(* BodyError and nothing for EmptyQuery and MalformedQuery.                *)
C5_BodyErrorKeepsCause ==
    Done =>
        /\ (req.plugin = "body" /\ req.fail # {})
              => /\ result = Err(BodyError(Unwrap(req.fail)))
                 /\ cause(result.err) = req.fail
                 /\ ~invoked
                 /\ data = <<>> /\ consumed = <<>>
        /\ result.tag = "Err"
              => /\ result.err.kind \in {"BodyError", "EmptyQuery", "MalformedQuery"}
                 /\ result.err.kind = "BodyError"
                       <=> (req.plugin = "body" /\ req.fail # {})
                 /\ result.err.kind # "BodyError" => cause(result.err) = {}

C5_Witness ==
    /\ Done
    /\ req.plugin = "body" /\ req.fail = {"e2"} /\ req.raw # {} /\ req.raw # {<<>>}
    /\ cause(result.err) = {"e2"}

(* What the '+' substitution does to one part. *)
Esc2B(p) ==
    Cardinality({i \in 1..Len(p) :
        /\ i + 2 <= Len(p)
        /\ p[i] = PERCENT /\ p[i + 1] = 50 /\ p[i + 2] \in {66, 98}})

PlusRule(p, out) ==
    /\ Count(p, PERCENT) = 0
          => /\ Len(out) = Len(p)
             /\ \A j \in 1..Len(p) : out[j] = IF p[j] = PLUS THEN SPACE ELSE p[j]
    /\ Count(out, PLUS) = Esc2B(p)
    /\ Count(out, SPACE) >= Count(p, PLUS) + Count(p, SPACE)

(* C6: in every key part and value part of a decoded input each literal    *)
(* '+' becomes a space and no '+' of the part survives: a part without '%' *)
(* is copied byte by byte with ' ' for '+', and the only '+' of an output  *)
(* are those written as the escape %2B; the test string gives              *)
(* band -> ["arctic monkeys"], anotherband -> ["temper trap"].             *)
C6_PlusBecomesSpace ==
    /\ pc \in {"fold", "done"} =>
          \A n \in 1..Len(consumed) :
              LET seg == RefSegments(data)[n]
              IN  /\ PlusRule(KeyPart(seg), consumed[n][1])
                  /\ PlusRule(ValuePart(seg), consumed[n][2])
    /\ (Succeeded /\ req.query = {TestPlus}) =>
          result.map = {[key |-> S_band, vals |-> <<S_arctic_sp_monkeys>>],
                        [key |-> S_anotherband, vals |-> <<S_temper_sp_trap>>]}

C6_Witness ==
    /\ Succeeded
    /\ req.query = {TestPlus}
    /\ \E e \in result.map : Count(e.vals[1], SPACE) = 1

(* Counting '%' in a text, and in the decoded pairs. *)
StrayCount(t) ==
    Cardinality({i \in 1..Len(t) :
        t[i] = PERCENT /\ ~(i + 2 <= Len(t) /\ IsHex(t[i + 1]) /\ IsHex(t[i + 2]))})

Esc25(t) ==
    Cardinality({i \in 1..Len(t) :
        i + 2 <= Len(t) /\ t[i] = PERCENT /\ t[i + 1] = 50 /\ t[i + 2] = 53})

RECURSIVE OutPercent(_)
OutPercent(pairs) ==
    IF pairs = <<>> THEN 0
    ELSE Count(Head(pairs)[1], PERCENT) + Count(Head(pairs)[2], PERCENT)
             + OutPercent(Tail(pairs))

(* C7: a '%' that is not followed by two hexadecimal digits does not make *)
(* decoding fail.  As claimed: it also reaches the decoded key or value    *)
(* literally.                                                              *)
C7_StrayPercentReachesOutput ==
    (Done /\ invoked /\ StrayCount(Text) > 0) =>
        /\ result.tag = "Ok" <=> decode_utf8_ok(percent_decode(Text))
        /\ result.tag = "Ok" => OutPercent(consumed) >= StrayCount(Text)

(* C7 as amended: such a '%' never makes decoding fail (the call succeeds  *)
(* unless the once-decoded bytes are invalid UTF-8) and the whole-text     *)
(* decoding copies it literally into the decoded text; it reaches the      *)
(* decoded key or value literally only if, in the decoded text, it is      *)
(* still not followed by two hexadecimal digits: the '%' of the output are *)
(* exactly the stray '%' and the %25 escapes of the decoded text.          *)
C7_StrayPercentTolerated ==
    (invoked /\ StrayCount(Text) > 0) =>
        /\ Done => /\ result.tag = "Ok" <=> decode_utf8_ok(percent_decode(Text))
                   /\ result.tag = "Err" => result = Err(MalformedQuery)
        /\ (pc \in {"fold", "done"} /\ decode_utf8_ok(percent_decode(Text)))
              => Count(data, PERCENT) = StrayCount(Text) + Esc25(Text)
        /\ Succeeded => OutPercent(consumed) = StrayCount(data) + Esc25(data)

C7_Witness ==
    /\ Succeeded /\ invoked
    /\ StrayCount(Text) >= 1
    /\ StrayCount(data) >= 1
    /\ OutPercent(consumed) >= 1

(* C8: empty segments give no pair, and a non-empty input without any pair *)
(* (only '&' once decoded) succeeds with an empty map.                     *)
C8_EmptySegmentsSkipped ==
    /\ Succeeded => Len(consumed) = Cardinality(SegStarts(data))
    /\ (Done /\ invoked /\ Text # <<>>)
          => /\ Count(Text, AMP) = Len(Text) => result = Ok({})
             /\ (decode_utf8_ok(percent_decode(Text))
                    /\ SegStarts(percent_decode(Text)) = {}) => result = Ok({})
             /\ result # Err(EmptyQuery)

C8_Witness ==
    /\ Done /\ invoked
    /\ Text = <<38, 38>>
    /\ result = Ok({})

(* C9: every non-empty segment gives exactly one pair, split at its first  *)
(* '=' only: without '=' the whole segment is the key and the value is     *)
(* empty, and a later '=' stays in the value ("x=1=4" gives x -> ["1=4"]). *)
C9_SplitOnFirstEquals ==
    /\ pc \in {"fold", "done"} =>
          \A n \in 1..Len(consumed) :
              LET seg == RefSegments(data)[n]
              IN  consumed[n] =
                     IF Count(seg, EQUALS) = 0 THEN <<decode(seg), <<>>>>
                     ELSE <<decode(KeyPart(seg)), decode(ValuePart(seg))>>
    /\ Succeeded => Len(consumed) = Len(RefSegments(data))
    /\ (Succeeded /\ req.query = {<<120, 61, 49, 61, 52>>})
          => result.map = {[key |-> <<120>>, vals |-> << <<49, 61, 52>> >>]}

C9_Witness ==
    /\ Succeeded
    /\ req.query = {<<120, 61, 49, 61, 52>>}
    /\ consumed = << <<(<<120>>), (<<49, 61, 52>>)>> >>

(* C10: splitting and '+' substitution work on the percent-decoded text d, *)
(* and the parts are percent-decoded again: the result is the grouping of  *)
(* the pairs of d.  A raw %26 delimits, a raw %3D separates key and value, *)
(* a raw %2B gives a space and %2541 gives "A".                            *)
C10_ParsesDecodedText ==
    (Done /\ invoked /\ Text # <<>> /\ decode_utf8_ok(percent_decode(Text))) =>
        /\ result = Ok(Grouped(FormPairs(percent_decode(Text))))
        /\ Text = <<120, 61, 49, 37, 50, 54, 52>>
              => result.map = {[key |-> <<120>>, vals |-> << <<49>> >>],
                               [key |-> <<52>>, vals |-> << <<>> >>]}
        /\ Text = <<49, 37, 51, 68, 52>>
              => result.map = {[key |-> <<49>>, vals |-> << <<52>> >>]}
        /\ Text = <<37, 50, 66>>
              => result.map = {[key |-> <<SPACE>>, vals |-> << <<>> >>]}
        /\ Text = <<37, 50, 53, 52, 49>>
              => result.map = {[key |-> <<65>>, vals |-> << <<>> >>]}

C10_Witness ==
    /\ Done /\ invoked
    /\ Text = <<37, 50, 53, 52, 49>>
    /\ result = Ok({[key |-> <<65>>, vals |-> << <<>> >>]})

====
